---- MODULE Spec2Model ----
(***************************************************************************)
(* Model of the foodgram backend glue:                                     *)
(*   backend/recipes/views.py     RecipeViewSet (favorite, shopping_cart,  *)
(*                                download_shopping_cart, get_link)        *)
(*   backend/users/serializers.py SubscriptionSerializer.get_recipes,      *)
(*                                CreateSubscriptionSerializer.validate    *)
(* The relation tables are kept as row counts per (user, recipe) so that   *)
(* a duplicate row is a representable state.                               *)
(***************************************************************************)
EXTENDS Integers, Sequences, FiniteSets, TLC

\* ------------------------------------------------------------------ bounds
\* recipes in the data set
NumRecipes == 2
\* longest recipes_limit parameter, in characters
MaxLimitLen == 2

\* ------------------------------------------------------------- the universe
Users == {"u1", "u2"}
Recipes == 1..NumRecipes
Kinds == {"Favorite", "ShoppingCart"}
Workers == {"w1", "w2"}
Hosts == {"example.com", "localhost:8000"}

Idle == [pc |-> "idle"]

VARIABLES
    store,          \* store[k][<<u, r>>]: rows of table k (Favorite / ShoppingCart) for the pair
    subscriptions,  \* subscriptions[<<s, a>>]: rows of Subscription for (subscriber, author)
    workers,        \* workers[w]: the request a server worker holds between is_valid() and save()
    resp            \* the last response sent

vars == <<store, subscriptions, workers, resp>>

\* ------------------------------------------------------- persistence layer
\* QuerySet.filter(user=u, recipe=r).exists() on table k
ExistsNever(k, u, r) == FALSE

Exists(k, u, r) == store[k][<<u, r>>] > 0

\* INSERT under the table's (user, recipe) uniqueness constraint:
\* the row is added, or the database raises IntegrityError and adds nothing.
DbInsert(k, u, r) ==
    IF Exists(k, u, r)
    THEN [ok |-> FALSE, rows |-> store]
    ELSE [ok |-> TRUE, rows |-> [store EXCEPT ![k][<<u, r>>] = @ + 1]]

\* FavoriteSerializer / ShoppingCartSerializer .is_valid(): the pair must not exist yet
is_valid(k, u, r) == ~Exists(k, u, r)

\* ----------------------------------------------------------- the responses
\* status and error kind; the bodies (serializer.data, the message) are left out
Created == [op |-> "add", code |-> 201, error |-> ""]
ValidationError == [op |-> "add", code |-> 400, error |-> "Conflict"]
ServerError == [op |-> "add", code |-> 500, error |-> "IntegrityError"]
NoContent == [op |-> "remove", code |-> 204, error |-> ""]
DoesNotExist == [op |-> "remove", code |-> 400, error |-> "NotFound"]
MultipleObjectsReturned == [op |-> "remove", code |-> 500, error |-> "MultipleObjectsReturned"]

\* ------------------------------------------------- RecipeViewSet, one request
\* save() without the is_valid() gate
create_user_recipe_relation_unvalidated(u, pk, k) ==
    /\ LET ins == DbInsert(k, u, pk)
       IN  /\ store' = ins.rows
           /\ resp' = IF ins.ok THEN Created ELSE ServerError
    /\ UNCHANGED <<subscriptions, workers>>

\* filter(...).delete() in place of get(...).delete(): no DoesNotExist
delete_user_recipe_relation_filter(u, pk, k) ==
    /\ store' = [store EXCEPT ![k][<<u, pk>>] = 0]
    /\ resp' = NoContent
    /\ UNCHANGED <<subscriptions, workers>>

\* the lookup by recipe_id alone, on the whole table instead of the user's rows
delete_user_recipe_relation_any_user(u, pk, k) ==
    /\ IF ~Exists(k, u, pk)
       THEN /\ resp' = DoesNotExist
            /\ store' = store
       ELSE /\ store' = [store EXCEPT ![k] = [p \in Users \X Recipes |->
                                                 IF p[2] = pk THEN 0 ELSE store[k][p]]]
            /\ resp' = NoContent
    /\ UNCHANGED <<subscriptions, workers>>

\* create_user_recipe_relation run to completion: is_valid(raise_exception=True),
\* save(), Response(201).  An exception of save() is not caught.
create_user_recipe_relation(u, pk, k) ==
    /\ IF ~is_valid(k, u, pk)
       THEN /\ resp' = ValidationError
            /\ store' = store
       ELSE LET ins == DbInsert(k, u, pk)
            IN  /\ store' = ins.rows
                /\ resp' = IF ins.ok THEN Created ELSE ServerError
    /\ UNCHANGED <<subscriptions, workers>>

\* delete_user_recipe_relation: get(user, recipe_id).delete(), DoesNotExist -> 400;
\* get() on several rows raises MultipleObjectsReturned, which is not caught
delete_user_recipe_relation(u, pk, k) ==
    /\ IF ~Exists(k, u, pk)
       THEN /\ resp' = DoesNotExist
            /\ store' = store
       ELSE IF store[k][<<u, pk>>] > 1
       THEN /\ resp' = MultipleObjectsReturned
            /\ store' = store
       ELSE /\ store' = [store EXCEPT ![k][<<u, pk>>] = @ - 1]
            /\ resp' = NoContent
    /\ UNCHANGED <<subscriptions, workers>>

favorite(u, pk, method) ==
    IF method = "POST"
    THEN create_user_recipe_relation(u, pk, "Favorite")
    ELSE delete_user_recipe_relation(u, pk, "Favorite")

shopping_cart(u, pk, method) ==
    IF method = "POST"
    THEN create_user_recipe_relation(u, pk, "ShoppingCart")
    ELSE delete_user_recipe_relation(u, pk, "ShoppingCart")

\* ------------------------------------------------ recipe and ingredient data
\* Ingredient rows (name, measurement_unit), by id.  Ids 1 and 4 carry the same
\* name and unit; ids 1 and 3 the same name with another unit.
Ingredient ==
    <<[name |-> "flour", measurement_unit |-> "g"],
      [name |-> "sugar", measurement_unit |-> "g"],
      [name |-> "flour", measurement_unit |-> "cup"],
      [name |-> "flour", measurement_unit |-> "g"]>>

\* IngredientInRecipe rows (recipe, ingredient id, amount) of the data set
IngredientRows ==
    <<[recipe |-> 1, ingredient |-> 1, amount |-> 200],
      [recipe |-> 1, ingredient |-> 2, amount |-> 50],
      [recipe |-> 2, ingredient |-> 1, amount |-> 100],
      [recipe |-> 2, ingredient |-> 3, amount |-> 2],
      [recipe |-> 3, ingredient |-> 4, amount |-> 30],
      [recipe |-> 3, ingredient |-> 2, amount |-> 50],
      [recipe |-> 3, ingredient |-> 4, amount |-> 5]>>

InRecipes(row) == row.recipe \in Recipes

\* the IngredientInRecipe table: the rows of the recipes that exist
IngredientInRecipe == SelectSeq(IngredientRows, InRecipes)

\* ---------------------------------------------------- download_shopping_cart
\* IngredientInRecipe.objects.filter(recipe__shopping_recipe__user=user): the
\* join with the user's ShoppingCart rows; a table row appears once per cart row.
Copies(u, i) == store["ShoppingCart"][<<u, IngredientInRecipe[i].recipe>>]

\* .values("ingredient__name", "ingredient__measurement_unit"): the grouping key
ValuesByName(i) == <<Ingredient[IngredientInRecipe[i].ingredient].name, "">>

Values(i) ==
    <<Ingredient[IngredientInRecipe[i].ingredient].name,
      Ingredient[IngredientInRecipe[i].ingredient].measurement_unit>>

RECURSIVE SumUpTo(_, _, _)
SumUpTo(u, key, n) ==
    IF n = 0 THEN 0
    ELSE SumUpTo(u, key, n - 1)
         + (IF Values(n) = key THEN IngredientInRecipe[n].amount * Copies(u, n) ELSE 0)

\* .annotate(sum=Sum("amount")): one row per key over the joined rows
Annotate(u) ==
    LET joined == {i \in 1..Len(IngredientInRecipe) : Copies(u, i) > 0}
        keys == {Values(i) : i \in joined}
    IN  {[ingredient__name |-> key[1],
          ingredient__measurement_unit |-> key[2],
          sum |-> SumUpTo(u, key, Len(IngredientInRecipe))] : key \in keys}

\* The query has no ORDER BY: the database returns the groups in any order.
Orderings(S) ==
    {q \in [1..Cardinality(S) -> S] : \A i, j \in 1..Cardinality(S) : q[i] = q[j] => i = j}

LineOneSpace(ingredient) ==
    ingredient.ingredient__name \o " - " \o ToString(ingredient.sum)
        \o "(" \o ingredient.ingredient__measurement_unit \o ")\n"

Line(ingredient) ==
    ingredient.ingredient__name \o "  - " \o ToString(ingredient.sum)
        \o "(" \o ingredient.ingredient__measurement_unit \o ")\n"

RECURSIVE ingredients_to_txt(_)
ingredients_to_txt(ingredients) ==
    IF ingredients = <<>> THEN ""
    ELSE ingredients_to_txt(SubSeq(ingredients, 1, Len(ingredients) - 1))
         \o Line(ingredients[Len(ingredients)])

download_shopping_cart(u) ==
    /\ \E ingredients \in Orderings(Annotate(u)) :
          resp' = [op |-> "download", code |-> 200, user |-> u,
                   ingredients |-> ingredients,
                   body |-> ingredients_to_txt(ingredients)]
    /\ UNCHANGED <<store, subscriptions, workers>>

\* ------------------------------------------------------------------ get_link
short_link_path_only(host, id) == "/s/" \o ToString(id)

short_link(host, id) == host \o "/s/" \o ToString(id)

get_link(host, pk) ==
    /\ resp' = [op |-> "get_link", code |-> 200, host |-> host, recipe |-> pk,
                body |-> short_link(host, pk)]
    /\ UNCHANGED <<store, subscriptions, workers>>

\* ------------------------------------------- the same request, interleaved
\* A server worker runs create_user_recipe_relation in two database round trips:
\* is_valid() reads the table, save() inserts.  Other workers run in between.
is_valid_step(w, u, pk, k) ==
    /\ workers[w] = Idle
    /\ IF ~is_valid(k, u, pk)
       THEN /\ resp' = ValidationError
            /\ workers' = workers
       ELSE /\ workers' = [workers EXCEPT ![w] = [pc |-> "save", user |-> u, recipe |-> pk, kind |-> k]]
            /\ resp' = resp
    /\ UNCHANGED <<store, subscriptions>>

save_step(w) ==
    /\ workers[w].pc = "save"
    /\ LET ins == DbInsert(workers[w].kind, workers[w].user, workers[w].recipe)
       IN  /\ store' = ins.rows
           /\ resp' = IF ins.ok
                      THEN Created
                      ELSE ServerError
    /\ workers' = [workers EXCEPT ![w] = Idle]
    /\ UNCHANGED subscriptions

\* ------------------------------------------------------------- subscriptions
Subscribed(s, a) == subscriptions[<<s, a>>] > 0

\* CreateSubscriptionSerializer.validate(data)
validate_accepts_all(data) == [ok |-> TRUE, data |-> data]

validate(data) ==
    IF data.subscriber = data.author
    THEN [ok |-> FALSE, data |-> data]
    ELSE [ok |-> TRUE, data |-> data]

SubResp(op, code, error, s, a) ==
    [op |-> op, code |-> code, error |-> error, subscriber |-> s, author |-> a]

\* The subscribe view: CreateSubscriptionSerializer(data).is_valid() runs the
\* (subscriber, author) uniqueness validator, then validate(); save() inserts.
subscribe(s, a) ==
    /\ IF Subscribed(s, a)
       THEN /\ resp' = SubResp("subscribe", 400, "Conflict", s, a)
            /\ subscriptions' = subscriptions
       ELSE IF ~validate([subscriber |-> s, author |-> a]).ok
       THEN /\ resp' = SubResp("subscribe", 400, "InvalidRelation", s, a)
            /\ subscriptions' = subscriptions
       ELSE /\ subscriptions' = [subscriptions EXCEPT ![<<s, a>>] = @ + 1]
            /\ resp' = SubResp("subscribe", 201, "", s, a)
    /\ UNCHANGED <<store, workers>>

unsubscribe(s, a) ==
    /\ IF ~Subscribed(s, a)
       THEN /\ resp' = SubResp("unsubscribe", 400, "NotFound", s, a)
            /\ subscriptions' = subscriptions
       ELSE /\ subscriptions' = [subscriptions EXCEPT ![<<s, a>>] = @ - 1]
            /\ resp' = SubResp("unsubscribe", 204, "", s, a)
    /\ UNCHANGED <<store, workers>>

\* --------------------------------------------------------------- get_recipes
\* every recipe of the data set was written by u1, in the order of the ids
RecipeAuthor(r) == "u1"

RECURSIVE RecipesUpTo(_, _)
RecipesUpTo(obj, n) ==
    IF n = 0 THEN <<>>
    ELSE RecipesUpTo(obj, n - 1) \o (IF RecipeAuthor(n) = obj THEN <<n>> ELSE <<>>)

\* obj.recipes.all()
recipes_all(obj) == RecipesUpTo(obj, NumRecipes)

\* query_params.get("recipes_limit"): None, or a string over this alphabet
None == [given |-> FALSE, text |-> <<>>]
Alphabet == {"0", "1", "2", "a", "-"}
LimitStrings == UNION {[1..n -> Alphabet] : n \in 0..MaxLimitLen}
QueryParams == {None} \cup {[given |-> TRUE, text |-> t] : t \in LimitStrings}

\* the truth value of the parameter: None and "" are false
Truthy(recipes_limit) == recipes_limit.given /\ recipes_limit.text # <<>>

DigitValue(c) == CASE c = "0" -> 0 [] c = "1" -> 1 [] c = "2" -> 2 [] OTHER -> -1
IsDigit(c) == DigitValue(c) >= 0

RECURSIVE Digits(_)
\* the value of a run of decimal digits, most significant first
Digits(s) == IF s = <<>> THEN 0 ELSE 10 * Digits(SubSeq(s, 1, Len(s) - 1)) + DigitValue(s[Len(s)])

\* int(s): an optional sign and at least one digit, or ValueError
int(s) ==
    LET body == IF s # <<>> /\ s[1] = "-" THEN Tail(s) ELSE s
    IN  IF body = <<>> \/ \E i \in 1..Len(body) : ~IsDigit(body[i])
        THEN [ok |-> FALSE, value |-> 0]
        ELSE [ok |-> TRUE,
              value |-> IF s[1] = "-" THEN 0 - Digits(body) ELSE Digits(body)]

Min(a, b) == IF a < b THEN a ELSE b

\* recipes[:n] on a QuerySet, n >= 0
SliceFrom(recipes, n) == SubSeq(recipes, Min(n, Len(recipes)) + 1, Len(recipes))

Slice(recipes, n) == SubSeq(recipes, 1, Min(n, Len(recipes)))

\* SubscriptionSerializer.get_recipes: the outcomes for (obj, recipes_limit)
get_recipes(obj, recipes_limit) ==
    LET recipes == recipes_all(obj)
    IN  IF ~Truthy(recipes_limit)
        THEN {[code |-> 200, recipes |-> recipes]}
        ELSE LET n == int(recipes_limit.text)
             IN  IF ~n.ok
                 THEN {[code |-> 200, recipes |-> recipes]}
                 ELSE IF n.value < 0
                 \* a negative slice bound: QuerySet raises ValueError (caught: the
                 \* full list) or AssertionError (not caught), by Django version
                 THEN {[code |-> 200, recipes |-> recipes], [code |-> 500, recipes |-> <<>>]}
                 ELSE {[code |-> 200, recipes |-> Slice(recipes, n.value)]}

\* a subscriptions listing serialises the followed author obj
list_subscription(obj, recipes_limit) ==
    /\ \E out \in get_recipes(obj, recipes_limit) :
          resp' = [op |-> "get_recipes", code |-> out.code, author |-> obj,
                   limit |-> recipes_limit, recipes |-> out.recipes]
    /\ UNCHANGED <<store, subscriptions, workers>>

\* -------------------------------------------------------------------- Init
Init ==
    /\ store = [k \in Kinds |-> [p \in Users \X Recipes |-> 0]]
    /\ subscriptions = [p \in Users \X Users |-> 0]
    /\ workers = [w \in Workers |-> Idle]
    /\ resp = [op |-> "none"]

Methods == {"POST", "DELETE"}

\* the relation requests, served one at a time
Favorite == \E u \in Users, pk \in Recipes, m \in Methods : favorite(u, pk, m)
ShoppingCart == \E u \in Users, pk \in Recipes, m \in Methods : shopping_cart(u, pk, m)

Next == Favorite \/ ShoppingCart

Spec == Init /\ [][Next]_vars

\* the shopping cart with its export, and the short link
DownloadShoppingCart == \E u \in Users : download_shopping_cart(u)
GetLink == \E host \in Hosts, pk \in Recipes : get_link(host, pk)

NextShopping == ShoppingCart \/ DownloadShoppingCart \/ GetLink

SpecShopping == Init /\ [][NextShopping]_vars

\* add requests of several workers interleaved.  A removal runs between their
\* steps as one step: it only takes a row away.
Validate == \E w \in Workers, u \in Users, pk \in Recipes, k \in Kinds : is_valid_step(w, u, pk, k)
Save == \E w \in Workers : save_step(w)
Delete == \E u \in Users, pk \in Recipes, k \in Kinds : delete_user_recipe_relation(u, pk, k)

NextConcurrent == Validate \/ Save \/ Delete

SpecConcurrent == Init /\ [][NextConcurrent]_vars

\* the users application
Subscribe == \E s \in Users, a \in Users : subscribe(s, a)
Unsubscribe == \E s \in Users, a \in Users : unsubscribe(s, a)
ListSubscription == \E obj \in Users, recipes_limit \in QueryParams : list_subscription(obj, recipes_limit)

NextUsers == Subscribe \/ Unsubscribe \/ ListSubscription

SpecUsers == Init /\ [][NextUsers]_vars

\* ================================================================= claims
Rows(k, u, r) == store[k][<<u, r>>]

\* C1: an add of (u, r, k) whose pair is absent answers 201 and leaves exactly
\* one row for the pair; an add whose pair is present answers 400 Conflict and
\* leaves both tables unchanged (so a repeated add gives success, then Conflict).
C1_AddContract ==
    [][\A u \in Users, r \in Recipes, k \in Kinds :
          create_user_recipe_relation(u, r, k)
          => IF Rows(k, u, r) = 0
             THEN resp'.code = 201 /\ resp'.error = "" /\ store'[k][<<u, r>>] = 1
             ELSE resp'.code = 400 /\ resp'.error = "Conflict" /\ store' = store]_vars

C1_Witness ==
    /\ resp.op = "add"
    /\ resp.error = "Conflict"
    /\ \E k \in Kinds, u \in Users, r \in Recipes : Rows(k, u, r) = 1

\* C2: a remove of (u, r, k) whose pair is absent answers 400 NotFound and
\* changes nothing; a remove whose pair is present answers 204 and leaves no
\* row for the pair (so the next remove of it is NotFound).
C2_RemoveContract ==
    [][\A u \in Users, r \in Recipes, k \in Kinds :
          delete_user_recipe_relation(u, r, k)
          => IF Rows(k, u, r) = 0
             THEN resp'.code = 400 /\ resp'.error = "NotFound" /\ store' = store
             ELSE resp'.code = 204 /\ resp'.error = "" /\ store'[k][<<u, r>>] = 0]_vars

C2_Witness ==
    /\ resp.op = "remove"
    /\ resp.error = "NotFound"
    /\ \E k \in Kinds, u \in Users, r \in Recipes : Rows(k, u, r) = 1

\* C3: after any sequence of adds and removes each table holds at most one
\* row per (user, recipe).
C3_AtMostOneRow ==
    \A k \in Kinds, u \in Users, r \in Recipes : Rows(k, u, r) <= 1

C3_Witness ==
    /\ resp.op = "add"
    /\ resp.error = "Conflict"
    /\ \E u \in Users, r \in Recipes : \A k \in Kinds : Rows(k, u, r) = 1

\* C4: every add, also one whose insert meets the uniqueness constraint because
\* a concurrent add of the same triple inserted first, ends Created or Conflict.
C4_RaceEndsInConflict ==
    resp.op = "add" => (resp.code = 201 \/ (resp.code = 400 /\ resp.error = "Conflict"))

\* C5: subscribe(u, u) answers InvalidRelation and creates nothing, whatever
\* the subscriptions are; no state holds a subscription of a user to themself.
C5_NoSelfSubscription ==
    [][/\ \A u \in Users : subscriptions'[<<u, u>>] = 0
       /\ \A u \in Users :
             (resp'.op = "subscribe" /\ resp'.subscriber = u /\ resp'.author = u)
             => (resp'.code = 400 /\ resp'.error = "InvalidRelation"
                 /\ subscriptions' = subscriptions)]_vars

C5_Witness ==
    /\ resp.op = "subscribe"
    /\ resp.subscriber = resp.author
    /\ resp.error = "InvalidRelation"
    /\ \E p \in Users \X Users : subscriptions[p] = 1

Cart(u) == {r \in Recipes : Rows("ShoppingCart", u, r) > 0}

RecipeIngredients(r) ==
    LET OfRecipe(row) == row.recipe = r IN SelectSeq(IngredientRows, OfRecipe)

PairOf(row) == <<Ingredient[row.ingredient].name, Ingredient[row.ingredient].measurement_unit>>

CartPairs(u) ==
    UNION {{PairOf(RecipeIngredients(r)[j]) : j \in 1..Len(RecipeIngredients(r))} : r \in Cart(u)}

RECURSIVE RecipeTotal(_, _, _)
RecipeTotal(r, pair, j) ==
    IF j > Len(RecipeIngredients(r)) THEN 0
    ELSE (IF PairOf(RecipeIngredients(r)[j]) = pair THEN RecipeIngredients(r)[j].amount ELSE 0)
         + RecipeTotal(r, pair, j + 1)

RECURSIVE CartTotal(_, _, _)
CartTotal(u, pair, r) ==
    IF r > NumRecipes THEN 0
    ELSE (IF r \in Cart(u) THEN RecipeTotal(r, pair, 1) ELSE 0) + CartTotal(u, pair, r + 1)

EntryPair(e) == <<e.ingredient__name, e.ingredient__measurement_unit>>

\* C6: the aggregate of a user has exactly one entry per (name, unit) pair of
\* the recipes in the user's cart, and its sum is the total of the amounts
\* carrying that name and unit in those recipes; flour in g and flour in cup
\* are two entries.
C6_AggregateSums ==
    resp.op = "download" =>
        LET ing == resp.ingredients
        IN  /\ Len(ing) = Cardinality(CartPairs(resp.user))
            /\ {EntryPair(ing[i]) : i \in 1..Len(ing)} = CartPairs(resp.user)
            /\ \A i \in 1..Len(ing) : ing[i].sum = CartTotal(resp.user, EntryPair(ing[i]), 1)
            /\ Cart(resp.user) = {1, 2} =>
                  {ing[i] : i \in 1..Len(ing)} =
                      {[ingredient__name |-> "flour", ingredient__measurement_unit |-> "g", sum |-> 300],
                       [ingredient__name |-> "sugar", ingredient__measurement_unit |-> "g", sum |-> 50],
                       [ingredient__name |-> "flour", ingredient__measurement_unit |-> "cup", sum |-> 2]}

C6_Witness ==
    /\ resp.op = "download"
    /\ Cart(resp.user) = {1, 2}
    /\ Len(resp.ingredients) = 3

RECURSIVE ExpectedText(_)
ExpectedText(ing) ==
    IF Len(ing) = 0 THEN ""
    ELSE (Head(ing).ingredient__name \o "  - " \o ToString(Head(ing).sum) \o "("
             \o Head(ing).ingredient__measurement_unit \o ")" \o "\n")
         \o ExpectedText(Tail(ing))

\* C7: the export is, for each aggregated entry in order, the line
\* "<name>  - <sum>(<unit>)\n" and nothing else; an empty cart gives the empty
\* aggregate, the empty text and status 200.
C7_ExportLines ==
    resp.op = "download" =>
        /\ resp.code = 200
        /\ resp.body = ExpectedText(resp.ingredients)
        /\ Cart(resp.user) = {} => (resp.ingredients = <<>> /\ resp.body = "")
        /\ (Cart(resp.user) = {1} /\ resp.ingredients[1].ingredient__name = "flour")
              => resp.body = "flour  - 200(g)\nsugar  - 50(g)\n"

C7_Witness ==
    /\ resp.op = "download"
    /\ Cart(resp.user) = {1}
    /\ resp.body = "sugar  - 50(g)\nflour  - 200(g)\n"

IsIntText(t) ==
    /\ t # <<>>
    /\ LET d == IF t[1] = "-" THEN Tail(t) ELSE t
       IN  d # <<>> /\ \A i \in 1..Len(d) : d[i] \in {"0", "1", "2"}

RECURSIVE Pow10(_)
Pow10(n) == IF n = 0 THEN 1 ELSE 10 * Pow10(n - 1)

RECURSIVE PlaceSum(_, _)
PlaceSum(d, i) ==
    IF i > Len(d) THEN 0
    ELSE (CASE d[i] = "0" -> 0 [] d[i] = "1" -> 1 [] d[i] = "2" -> 2) * Pow10(Len(d) - i)
         + PlaceSum(d, i + 1)

IntValue(t) == IF t[1] = "-" THEN 0 - PlaceSum(Tail(t), 1) ELSE PlaceSum(t, 1)

\* C8: get_recipes gives the author's recipes in creation order: the first n of
\* them when the limit is the decimal text of n >= 0, all of them when the
\* limit is absent or is no integer text; neither case is an error.
C8_RecipesLimit ==
    resp.op = "get_recipes" =>
        LET all == recipes_all(resp.author)
            lim == resp.limit
        IN  /\ (~lim.given \/ ~IsIntText(lim.text))
               => (resp.code = 200 /\ resp.recipes = all)
            /\ (lim.given /\ IsIntText(lim.text) /\ IntValue(lim.text) >= 0)
               => /\ resp.code = 200
                  /\ Len(resp.recipes) = Min(IntValue(lim.text), Len(all))
                  /\ \A i \in 1..Len(resp.recipes) : resp.recipes[i] = all[i]
            /\ \A i, j \in 1..Len(all) : i < j => all[i] < all[j]

C8_Witness ==
    /\ resp.op = "get_recipes"
    /\ resp.limit = [given |-> TRUE, text |-> <<"1">>]
    /\ resp.recipes = <<1>>
    /\ Len(recipes_all(resp.author)) >= 2

RelationRequest(u, r, k) ==
    create_user_recipe_relation(u, r, k) \/ delete_user_recipe_relation(u, r, k)

\* C10: an add or remove of (u, r, k) leaves the rows of every other
\* (user, recipe, kind) as they were, and with them every other user's aggregate.
C10_Frame ==
    [][/\ \A u \in Users, r \in Recipes, k \in Kinds :
             RelationRequest(u, r, k)
             => /\ \A k2 \in Kinds, u2 \in Users, r2 \in Recipes :
                      <<k2, u2, r2>> # <<k, u, r>> => store'[k2][<<u2, r2>>] = store[k2][<<u2, r2>>]
                /\ subscriptions' = subscriptions
       /\ \A u \in Users :
             (\E r \in Recipes, k \in Kinds : RelationRequest(u, r, k))
             => \A u2 \in Users \ {u} : Annotate(u2)' = Annotate(u2)]_vars

C10_Witness ==
    /\ resp.op = "remove"
    /\ resp.code = 204
    /\ \E u \in Users, r \in Recipes, k \in Kinds :
          /\ Rows(k, u, r) = 0
          /\ \E u2 \in Users \ {u} : Rows(k, u2, r) = 1
          /\ \E k2 \in Kinds \ {k} : Rows(k2, u, r) = 1
====
